---- MODULE Spec2Model ----
(***************************************************************************)
(* A model of the crawl engine of poopak: the fetcher (crawler/curl.py),   *)
(* the crawl orchestrator (crawler/spider.py), the document store adapter  *)
(* (crawler/data_storage.py over repositories/document_repository.py) and  *)
(* the job queue the orchestrator feeds.                                   *)
(***************************************************************************)
EXTENDS Integers, Sequences, FiniteSets, TLC

VARIABLES
    \* ---- query(url), crawler/curl.py
    q_pc,        \* "loop" while the retry loop runs, then "done" or "raised"
    try_count,   \* curl.py:58
    resp,        \* curl.py:59
    output,      \* curl.py:55, the BytesIO the transfers write to
    q_attempts,  \* number of query.perform() attempts started so far
    q_hist,      \* the outcomes of the attempts, in order
    \* ---- the crawl workers, the store and the queue
    store,       \* the documents collection, in insertion order (index = _id)
    created,     \* per document: what the invocation that created it had seen
    queue,       \* the crawler queue of pending crawl_with_depth jobs
    wk,          \* per worker: the Spider it is running
    started,     \* number of crawl invocations started so far
    job_limit,   \* number of crawl invocations that are followed
    seeded,      \* number of seed jobs submitted so far
    faults,      \* number of store and queue calls that have failed so far
    \* ---- Extractor.get_links, crawler/html_extractors.py
    e_pc,        \* "idle", "loop" while the for loop runs, then "done" or "raised"
    e_base_url,  \* html_extractors.py:36
    e_anchors,   \* self.soup.find_all("a"), html_extractors.py:58
    e_urls,      \* _urls, html_extractors.py:57
    e_page,      \* what self.soup and self.html hold besides the anchors
    e_results,   \* the accessor calls made on the Extractor, with their outcomes
    \* ---- CrawlerService.crawl_url, services/crawler_service.py
    s_last,      \* the last crawl_url call: its arguments and how it ended
    \* ---- ErrorTracker, web/error_tracking.py
    tracker,     \* enabled, _sentry_enabled, _custom_handlers (error_tracking.py:32-35)
    t_last,      \* the last capture_exception call: what it saw and did
    \* ---- QueueFactory and DatabaseConnection, infrastructure/
    f_connections, \* QueueFactory._connections (queue.py:55-60)
    d_client,    \* DatabaseConnection._client (database.py:28)
    net,         \* which of the Redis and MongoDB servers can be reached
    f_last,      \* the last get_connection or get_client call and how it ended
    \* ---- SessionCaptcha, web/captchar.py
    k_enabled,   \* SessionCaptcha.enabled
    k_ready,     \* whether SessionCaptcha.image_generator is set
    k_session,   \* session[CAPTCHA_SESSION_KEY]; <<>> stands for None
    k_hist       \* the validate calls since the last generate, in order

vars == <<q_pc, try_count, resp, output, q_attempts, q_hist,
          store, created, queue, wk, started, job_limit, seeded, faults,
          e_pc, e_base_url, e_anchors, e_urls, e_page, e_results,
          s_last, tracker, t_last, f_connections, d_client, net, f_last,
          k_enabled, k_ready, k_session, k_hist>>
qvars == <<q_pc, try_count, resp, output, q_attempts, q_hist>>
cvars == <<store, created, queue, wk, started, job_limit, seeded, faults>>
evars == <<e_pc, e_base_url, e_anchors, e_urls, e_page, e_results>>
svars == <<s_last>>
\* The components around the crawl engine.
tvars == <<tracker, t_last>>
fvars == <<f_connections, d_client, net, f_last>>
kvars == <<k_enabled, k_ready, k_session, k_hist>>
avars == <<svars, tvars, fvars, kvars>>

(***************************************************************************)
(* Bounds of the model.                                                    *)
(***************************************************************************)
MaxAttempts == 5
MaxJobs == 2
MaxSeeds == 2
MaxDepth == 2
MaxLinks == 2
MaxFaults == 1
MaxAnchors == 2
MaxCalls == 2
MaxHandlers == 3
MaxValidates == 3

(***************************************************************************)
(* Program constants.                                                      *)
(***************************************************************************)
max_try_count == 3
HTTP_OK == 200
HTTP_SERVICE_UNAVAILABLE == 503
MAX_CRAWL_DEPTH == 5
MAX_RETRY_SENTINEL == 9999

http_codes ==
    {200, 201, 202, 203, 204, 400, 401, 402, 403, 404,
     500, 501, 502, 503, 301, 302, 303, 304}

\* The status codes the modelled servers answer with: listed ones and one
\* (206 Partial Content) that http_codes does not list.
ServerCodes == {200, 404, 503, 206}

(***************************************************************************)
(*                         query(url), curl.py                             *)
(***************************************************************************)

\* What one transfer writes to the output buffer: nothing, bytes that are
\* valid UTF-8 text, or bytes that are not.
Chunks == {"none", "text", "bad"}

\* The outcome of one pass through the try block (curl.py:62-77).
Outcomes ==
    [kind : {"pycurl.error"}, code : {0}, wrote : Chunks]
      \cup [kind : {"Exception"}, code : {0}, wrote : {"none"}]
      \cup [kind : {"response"}, code : ServerCodes, wrote : Chunks]

NoResp == [status |-> 0, has_html |-> FALSE, html |-> <<>>]

ErrorResp == [status |-> HTTP_SERVICE_UNAVAILABLE, has_html |-> FALSE, html |-> <<>>]

\* output.write appends to the one buffer created before the loop.
Written(buf, n, o) ==
    IF o.wrote = "none" THEN buf ELSE Append(buf, [att |-> n, bytes |-> o.wrote])

\* response.decode("utf8") of the whole buffer.
Decodable(buf) == \A i \in 1..Len(buf) : buf[i].bytes = "text"

\* What the try block raises, if anything.
Raises(buf, o) ==
    IF o.kind = "response"
    THEN IF Decodable(buf) THEN "none" ELSE "UnicodeDecodeError"
    ELSE o.kind

\* A variant of Handler without the UnicodeDecodeError clause: the catch-all
\* clause takes the decode failure.
HandlerWithoutDecodeClause(exc) ==
    CASE exc = "pycurl.error" -> "pycurl.error"
      [] OTHER -> "Exception"

\* The except clause that catches an exception (curl.py:89,94,99).
Handler(exc) ==
    CASE exc = "pycurl.error" -> "pycurl.error"
      [] exc = "UnicodeDecodeError" -> "UnicodeDecodeError"
      [] OTHER -> "Exception"

\* A variant of TransportErrorCount that gives up after the first error.
TransportErrorSentinel(tc) == MAX_RETRY_SENTINEL

\* try_count after a pycurl.error (curl.py:90).
TransportErrorCount(tc) == tc + 1

\* A variant of OnResponse that keeps the body of every listed status.
OnResponseKeepsBody(code, buf, old_resp, tc) ==
    IF code \in http_codes
    THEN <<[status |-> code, has_html |-> TRUE, html |-> buf], MAX_RETRY_SENTINEL>>
    ELSE <<old_resp, tc>>

\* The result for a decoded response (curl.py:79-87): the pair of the new
\* resp and the new try_count.
OnResponse(code, buf, old_resp, tc) ==
    IF code \in http_codes
    THEN IF code = HTTP_OK
         THEN <<[status |-> code, has_html |-> TRUE, html |-> buf], MAX_RETRY_SENTINEL>>
         ELSE <<[status |-> code, has_html |-> FALSE, html |-> <<>>], MAX_RETRY_SENTINEL>>
    ELSE <<old_resp, tc>>

\* One iteration of the while loop (curl.py:61-102).
QAttempt ==
    /\ q_pc = "loop"
    /\ try_count < max_try_count
    /\ q_attempts < MaxAttempts
    /\ \E o \in Outcomes :
         LET n   == q_attempts + 1
             buf == Written(output, n, o)
             exc == Raises(buf, o)
             h   == Handler(exc)
         IN /\ q_attempts' = n
            /\ output' = buf
            /\ q_hist' = Append(q_hist, o)
            /\ IF exc = "none"
               THEN /\ resp' = OnResponse(o.code, buf, resp, try_count)[1]
                    /\ try_count' = OnResponse(o.code, buf, resp, try_count)[2]
                    /\ q_pc' = "loop"
               ELSE CASE h = "pycurl.error" ->
                           /\ try_count' = TransportErrorCount(try_count)
                           /\ resp' = ErrorResp
                           /\ q_pc' = "loop"
                      [] h = "UnicodeDecodeError" ->
                           /\ resp' = ErrorResp
                           /\ try_count' = MAX_RETRY_SENTINEL
                           /\ q_pc' = "loop"
                      [] h = "Exception" ->
                           /\ try_count' = try_count + 1
                           /\ resp' = ErrorResp
                           /\ q_pc' = "loop"
                      [] OTHER ->
                           /\ UNCHANGED <<try_count, resp>>
                           /\ q_pc' = "raised"
    /\ UNCHANGED cvars
    /\ UNCHANGED evars
    /\ UNCHANGED avars

\* The loop condition fails and query returns resp (curl.py:104-107).
QReturn ==
    /\ q_pc = "loop"
    /\ try_count >= max_try_count
    /\ q_pc' = "done"
    /\ UNCHANGED <<try_count, resp, output, q_attempts, q_hist>>
    /\ UNCHANGED cvars
    /\ UNCHANGED evars
    /\ UNCHANGED avars

QInit ==
    /\ q_pc = "loop"
    /\ try_count = 0
    /\ resp = NoResp
    /\ output = <<>>
    /\ q_attempts = 0
    /\ q_hist = <<>>

(***************************************************************************)
(*        The crawl orchestrator, the store and the queue                  *)
(***************************************************************************)

Workers == {1, 2}

U1 == "http://a.onion/"
U2 == "http://b.onion/x"
Urls == {U1, U2}

\* urlparse(base_url).netloc (spider.py:111)
Netloc(url) == IF url = U1 THEN "a.onion" ELSE "b.onion"

\* The i-th anchor of a page as Extractor.get_links reports it
\* (html_extractors.py:79).
LinkAt(i) ==
    IF i % 2 = 1
    THEN [url |-> U2, is_onion |-> TRUE, in_scope |-> FALSE]
    ELSE [url |-> U1, is_onion |-> FALSE, in_scope |-> TRUE]

LinkList(n) == [i \in 1..n |-> LinkAt(i)]

\* The markup of a fetched page: every anchor has an href and every image a
\* src, or some anchor has no href, or some image has no src.
Shapes == {"ok", "a_no_href", "img_no_src"}

\* The pages the modelled servers serve: well-formed ones with 0..MaxLinks
\* anchors, and one of each malformed shape.
Pages ==
    {[links |-> LinkList(n), shape |-> "ok"] : n \in 0..MaxLinks}
      \cup {[links |-> LinkList(1), shape |-> s] : s \in Shapes \ {"ok"}}

\* The outcomes of a store or queue call that the environment may still
\* choose: TRUE (the call succeeds) or, while failures remain, FALSE.
Oks == IF faults < MaxFaults THEN BOOLEAN ELSE {TRUE}

Fault(ok) == faults' = IF ok THEN faults ELSE faults + 1

NoPage == [links |-> <<>>, shape |-> "none"]

\* What query returns to the Spider: a status, and html exactly for 200
\* (curl.py:79-102).
FetchResults ==
    {[status |-> c, has_html |-> (c = HTTP_OK)] :
        c \in {HTTP_OK, HTTP_SERVICE_UNAVAILABLE}}

Responses ==
    {[status |-> r.status, has_html |-> r.has_html, page |-> p] :
        r \in FetchResults, p \in Pages \cup {NoPage}}

NoResponse == [status |-> 0, has_html |-> FALSE, page |-> NoPage]

\* A job is the argument list of crawl_with_depth (spider.py:27-35). hops and
\* root are not arguments: they record how many enqueue steps lead from the
\* seed job to this one, and the depth the seed was submitted with.
NoJob ==
    [url |-> "", parent |-> 0, depth |-> 0, is_onion |-> FALSE,
     in_scope |-> FALSE, re_crawl |-> FALSE, hops |-> 0, root |-> 0]

\* A worker that runs no crawl_with_depth job.
Idle ==
    [pc |-> "idle", job |-> NoJob, inv |-> 0, response |-> NoResponse,
     data |-> <<>>, seen |-> FALSE, ret |-> 0, calls |-> <<>>,
     enq |-> <<>>, failed |-> {}, sfail |-> FALSE, efail |-> FALSE, writes |-> 0,
     pre_exist |-> FALSE, checked_at |-> 0, check_failed |-> FALSE,
     capture |-> "none"]

----------------------------------------------------------------------------
\* The store: DocumentRepository over the documents collection.

Matches(url) == {i \in 1..Len(store) : store[i].url = url}

FirstMatch(url) == CHOOSE i \in Matches(url) : \A j \in Matches(url) : i <= j

\* DocumentRepository.url_exists -> BaseRepository.exists -> count > 0
url_exists(url) == Cardinality(Matches(url)) > 0

\* update_one(..., {"$set": data}): the fields of data overwrite, the other
\* fields of the document stay.
SetFields(doc, data) ==
    [f \in (DOMAIN doc) \cup (DOMAIN data) |->
        IF f \in DOMAIN data THEN data[f] ELSE doc[f]]

\* insert_one: the document gets the next _id.
Inserted(data) == SetFields(data, [_id |-> Len(store) + 1])

----------------------------------------------------------------------------
\* The Spider.

\* Spider._build_base_document_data (spider.py:128-141)
BaseData(w) ==
    [netloc |-> Netloc(w.job.url), url |-> w.job.url,
     status |-> w.response.status, seen_time |-> w.inv,
     parent |-> w.job.parent]

\* Spider._extract_html_content (spider.py:143-165); title, body, emails,
\* images and addresses are functions of the page, kept as the page's shape.
HtmlData(w) ==
    [html |-> w.response.page, body |-> w.response.page.shape,
     title |-> w.response.page.shape, emails |-> w.response.page.shape,
     links |-> w.response.page.links, images |-> w.response.page.shape,
     addresses |-> w.response.page.shape]

\* Extractor.get_links and get_img_links raise TypeError on an anchor
\* without href (html_extractors.py:59-63) and on an image without src
\* (html_extractors.py:127-135); nothing on the way up catches it.
ExtractionRaises(page) == page.shape \in {"a_no_href", "img_no_src"}

\* get_screenshot (screenshot.py:17-42): True when the download succeeds;
\* an IOError or any other Exception is logged and answered with False.
get_screenshot(ok) == ok

\* A variant of _capture_screenshot that returns None when get_screenshot
\* reports a failure.
capture_screenshot_checked(ok, capture_id) ==
    IF get_screenshot(ok) THEN capture_id ELSE 0

\* Spider._capture_screenshot (spider.py:193-207): the answer of
\* get_screenshot is not looked at, and get_screenshot does not raise, so the
\* fresh capture_id is returned; 0 stands for None.
capture_screenshot(ok, capture_id) ==
    IF get_screenshot(ok) \in BOOLEAN THEN capture_id ELSE 0

\* A variant of _build_full_document_data that derives the two flags from
\* the URL that was fetched: an onion host, and in scope of itself.
FullDataRecomputed(w) ==
    LET base == SetFields(BaseData(w), [is_onion |-> TRUE, in_scope |-> TRUE])
    IN IF w.response.has_html
       THEN SetFields(SetFields(base, HtmlData(w)), [capture_id |-> w.inv])
       ELSE base

\* Spider._build_full_document_data (spider.py:167-191); the capture id is a
\* fresh uuid, modelled by the number of the invocation.
FullData(w) ==
    LET base == SetFields(BaseData(w),
                          [is_onion |-> w.job.is_onion, in_scope |-> w.job.in_scope])
    IN IF w.response.has_html
       THEN LET d == SetFields(base, HtmlData(w))
            IN IF w.response.status = HTTP_OK
               THEN LET capture_id == capture_screenshot(w.capture = "ok", w.inv)
                    IN IF capture_id # 0
                       THEN SetFields(d, [capture_id |-> capture_id])
                       ELSE d
               ELSE d
       ELSE base

\* Whether _build_full_document_data reaches _capture_screenshot
\* (spider.py:180, 186).
CaptureAttempted(w) == w.response.has_html /\ w.response.status = HTTP_OK

\* What the Splash download of this invocation can do (screenshot.py:34).
CaptureOutcomes(w) == IF CaptureAttempted(w) THEN {"ok", "failed"} ELSE {"none"}

\* CrawlerService.crawl_url (crawler_service.py:92-115): a caller submits a
\* seed job.
Seed ==
    /\ seeded < MaxSeeds
    /\ \E url \in Urls, depth \in 0..MaxDepth, re_crawl \in BOOLEAN :
         queue' = Append(queue,
                    [url |-> url, parent |-> 0, depth |-> depth, is_onion |-> TRUE,
                     in_scope |-> FALSE, re_crawl |-> re_crawl,
                     hops |-> 0, root |-> depth])
    /\ seeded' = seeded + 1
    /\ UNCHANGED <<store, created, wk, started, faults, job_limit>>
    /\ UNCHANGED qvars
    /\ UNCHANGED evars
    /\ UNCHANGED avars

\* A free worker (the first of the free ones: they are interchangeable)
\* takes the next job: crawl_with_depth builds the Spider, whose
\* constructor fetches the page (spider.py:51-72, 110-124).
Take(w) ==
    /\ wk[w].pc = "idle"
    /\ \A v \in Workers : v < w => wk[v].pc # "idle"
    /\ queue # <<>>
    /\ started < job_limit
    /\ \E r \in Responses :
         /\ (r.page = NoPage) <=> ~r.has_html
         /\ wk' = [wk EXCEPT ![w] =
                     [Idle EXCEPT !.pc = "process", !.job = Head(queue),
                                  !.inv = started + 1, !.response = r,
                                  !.pre_exist = url_exists(Head(queue).url)]]
    /\ queue' = Tail(queue)
    /\ started' = started + 1
    /\ UNCHANGED <<store, created, job_limit, seeded, faults>>
    /\ UNCHANGED qvars
    /\ UNCHANGED evars
    /\ UNCHANGED avars

\* process_crawl up to the upsert (spider.py:273-282): build the payload.
Process(w) ==
    /\ wk[w].pc = "process"
    /\ IF wk[w].response.status = 0
       THEN wk' = [wk EXCEPT ![w].data = BaseData(wk[w]), ![w].pc = "exists"]
       ELSE IF wk[w].response.has_html /\ ExtractionRaises(wk[w].response.page)
            THEN wk' = [wk EXCEPT ![w].pc = "raised"]
            ELSE \E c \in CaptureOutcomes(wk[w]) :
                   LET v == [wk[w] EXCEPT !.capture = c]
                   IN wk' = [wk EXCEPT ![w] = [v EXCEPT !.data = FullData(v),
                                                        !.pc = "exists"]]
    /\ UNCHANGED <<store, created, queue, started, seeded, faults, job_limit>>
    /\ UNCHANGED qvars
    /\ UNCHANGED evars
    /\ UNCHANGED avars

\* A variant of is_url_exist that never finds the document.
is_url_exist_blind(ok, url) == FALSE

\* DataStorage.is_url_exist (data_storage.py:31-48): a store error is
\* swallowed and reported as "does not exist".
is_url_exist(ok, url) == IF ok THEN url_exists(url) ELSE FALSE

\* A variant of DepthLevels in which every child inherits the depth of the
\* job that enqueues it.
DepthLevelsInherited(depth) == [k \in 1..depth |-> depth]

\* A variant of DepthLevels with the inclusive range(depth + 1).
DepthLevelsInclusive(depth) == [k \in 1..(depth + 1) |-> k - 1]

\* A variant of DepthLevels that counts the levels from 1.
DepthLevelsFromOne(depth) == [k \in 1..depth |-> k]

\* range(self.depth) (spider.py:251), as the sequence of its values.
DepthLevels(depth) == [k \in 1..depth |-> k - 1]

\* The job one enqueue_call submits (spider.py:254-259); use_proxy and
\* re_crawl take the defaults of crawl_with_depth (spider.py:33-34).
ChildJob(link, parent_id, depth_level) ==
    [url |-> link.url, parent |-> parent_id, depth |-> depth_level,
     is_onion |-> link.is_onion, in_scope |-> link.in_scope, re_crawl |-> TRUE]

\* The enqueue_calls of _enqueue_child_links in the order the two loops make
\* them (spider.py:251-259): for each depth level, for each link.
FanOutJobs(links, parent_id, depth) ==
    LET levels == DepthLevels(depth)
        n      == Len(links)
    IN [p \in 1..(Len(levels) * n) |->
           ChildJob(links[((p - 1) % n) + 1], parent_id, levels[((p - 1) \div n) + 1])]

\* A variant of AfterSave that goes on to the fan-out whatever the upsert
\* returned.
AfterSaveAlwaysFanOut(w, parent_id) ==
    IF w.response.status = 0 THEN "done" ELSE "fanout"

\* A variant of ChildCalls without the depth guards and with the inclusive
\* range(depth + 1).
ChildCallsInclusive(w, parent_id) ==
    IF parent_id # 0 /\ "links" \in DOMAIN w.data
    THEN [p \in 1..((w.job.depth + 1) * Len(w.data.links)) |->
            ChildJob(w.data.links[((p - 1) % Len(w.data.links)) + 1], parent_id,
                     (p - 1) \div Len(w.data.links))]
    ELSE <<>>

\* The enqueue_calls process_crawl makes once _save_or_update_document has
\* returned parent_id: none unless the guards of spider.py:288 and
\* spider.py:246 let the loops of spider.py:251-259 run.
ChildCalls(w, parent_id) ==
    IF parent_id # 0 /\ "links" \in DOMAIN w.data /\ w.job.depth > 0
    THEN IF w.data.links = <<>> \/ w.job.depth <= 0
         THEN <<>>
         ELSE FanOutJobs(w.data.links, parent_id, w.job.depth)
    ELSE <<>>

\* The next position of the invocation once _save_or_update_document has
\* returned parent_id (spider.py:279, 285-292).
AfterSave(w, parent_id) ==
    IF w.response.status = 0
    THEN "done"
    ELSE IF ChildCalls(w, parent_id) # <<>> THEN "fanout" ELSE "done"

\* _save_or_update_document, the existence check (spider.py:220) and the
\* branch taken on its answer (spider.py:221-231).
CheckExists(w) ==
    /\ wk[w].pc = "exists"
    /\ \E ok \in Oks :
         LET seen == is_url_exist(ok, wk[w].job.url)
             next == IF seen
                     THEN IF wk[w].job.re_crawl THEN "update"
                          ELSE AfterSave(wk[w], 0)
                     ELSE "create"
         IN /\ wk' = [wk EXCEPT ![w].seen = seen, ![w].pc = next,
                                ![w].sfail = ~ok, ![w].check_failed = ~ok,
                                ![w].checked_at = Len(store)]
            /\ Fault(ok)
    /\ UNCHANGED <<store, created, queue, started, seeded, job_limit>>
    /\ UNCHANGED qvars
    /\ UNCHANGED evars
    /\ UNCHANGED avars

\* DataStorage.update_crawled_url -> DocumentRepository.update_by_url
\* (data_storage.py:62-82, document_repository.py:359-399): errors, and the
\* DocumentNotFoundError of an update that matches nothing, are swallowed.
Update(w) ==
    /\ wk[w].pc = "update"
    /\ \E ok \in Oks :
         /\ IF ok /\ Matches(wk[w].job.url) # {}
            THEN /\ store' = [store EXCEPT ![FirstMatch(wk[w].job.url)] =
                                 SetFields(@, wk[w].data)]
                 /\ wk' = [wk EXCEPT ![w].pc = "lookup", ![w].writes = @ + 1]
            ELSE /\ wk' = [wk EXCEPT ![w].pc = "lookup", ![w].sfail = TRUE]
                 /\ UNCHANGED store
         /\ Fault(ok)
    /\ UNCHANGED <<created, queue, started, seeded, job_limit>>
    /\ UNCHANGED qvars
    /\ UNCHANGED evars
    /\ UNCHANGED avars

\* DataStorage.get_document_by_url (data_storage.py:84-101) and the return of
\* the existing identity (spider.py:225-226).
Lookup(w) ==
    /\ wk[w].pc = "lookup"
    /\ \E ok \in Oks :
         LET id == IF ok /\ Matches(wk[w].job.url) # {}
                   THEN store[FirstMatch(wk[w].job.url)]._id ELSE 0
         IN /\ wk' = [wk EXCEPT ![w].ret = id, ![w].pc = AfterSave(wk[w], id),
                                ![w].sfail = @ \/ ~ok]
            /\ Fault(ok)
    /\ UNCHANGED <<store, created, queue, started, seeded, job_limit>>
    /\ UNCHANGED qvars
    /\ UNCHANGED evars
    /\ UNCHANGED avars

\* DataStorage.add_crawled_url -> DocumentRepository.create
\* (spider.py:231-236, document_repository.py:290-313): a failure is caught by
\* _save_or_update_document, which returns None.
Create(w) ==
    /\ wk[w].pc = "create"
    /\ \E ok \in Oks :
         /\ IF ok /\ wk[w].data.url # ""
            THEN /\ store' = Append(store, Inserted(wk[w].data))
                 /\ created' = Append(created,
                                   [inv |-> wk[w].inv, checked_at |-> wk[w].checked_at,
                                    check_failed |-> wk[w].check_failed])
                 /\ wk' = [wk EXCEPT ![w].ret = Len(store) + 1,
                                     ![w].pc = AfterSave(wk[w], Len(store) + 1),
                                     ![w].writes = @ + 1]
            ELSE /\ wk' = [wk EXCEPT ![w].ret = 0, ![w].pc = AfterSave(wk[w], 0),
                                     ![w].sfail = TRUE]
                 /\ UNCHANGED <<store, created>>
         /\ Fault(ok)
    /\ UNCHANGED <<queue, started, seeded, job_limit>>
    /\ UNCHANGED qvars
    /\ UNCHANGED evars
    /\ UNCHANGED avars

\* The jobs as the queue holds them: one enqueue step further from the seed
\* than the job that enqueues them (spider.py:254-259).
Lineage(jobs, by) ==
    [p \in 1..Len(jobs) |->
        SetFields(jobs[p], [hops |-> by.hops + 1, root |-> by.root])]

\* A variant of Kept in which the first failure ends the fan-out.
KeptUntilFailure(jobs, failed, p) ==
    IF \E q \in failed : q >= p
    THEN SubSeq(jobs, p, (CHOOSE q \in failed : q >= p /\ \A x \in failed : x >= p => q <= x) - 1)
    ELSE SubSeq(jobs, p, Len(jobs))

\* The jobs of the calls that do not fail, in order.
RECURSIVE Kept(_, _, _)
Kept(jobs, failed, p) ==
    IF p > Len(jobs) THEN <<>>
    ELSE IF p \in failed THEN Kept(jobs, failed, p + 1)
         ELSE <<jobs[p]>> \o Kept(jobs, failed, p + 1)

\* _enqueue_child_links (spider.py:246-264): every enqueue_call succeeds or
\* its failure is logged and skipped; failed is the set of calls that fail.
Enqueue(w) ==
    /\ wk[w].pc = "fanout"
    /\ LET jobs == ChildCalls(wk[w], wk[w].ret)
       IN \E failed \in SUBSET (1..Len(jobs)) :
            /\ faults + Cardinality(failed) <= MaxFaults
            /\ queue' = queue \o Lineage(Kept(jobs, failed, 1), wk[w].job)
            /\ wk' = [wk EXCEPT ![w].pc = "done", ![w].calls = jobs,
                                ![w].enq = Kept(jobs, failed, 1),
                                ![w].failed = failed,
                                ![w].efail = failed # {}]
            /\ faults' = faults + Cardinality(failed)
    /\ UNCHANGED <<store, created, started, seeded, job_limit>>
    /\ UNCHANGED qvars
    /\ UNCHANGED evars
    /\ UNCHANGED avars

\* The job is over: process_crawl has returned, or its exception has ended
\* crawl_with_depth (spider.py:73); the worker is free again.
Finish(w) ==
    /\ wk[w].pc \in {"done", "raised"}
    /\ wk' = [wk EXCEPT ![w] = Idle]
    /\ UNCHANGED <<store, created, queue, started, seeded, faults, job_limit>>
    /\ UNCHANGED qvars
    /\ UNCHANGED evars
    /\ UNCHANGED avars

CInit ==
    /\ store = <<>>
    /\ created = <<>>
    /\ queue = <<>>
    /\ wk = [w \in Workers |-> Idle]
    /\ started = 0
    /\ job_limit = MaxJobs
    /\ seeded = 0
    /\ faults = 0

\* A page without title, body and images.
NoMarkup == [has_title |-> FALSE, has_body |-> FALSE, text |-> <<>>, imgs |-> <<>>]

\* No Extractor at work.
EIdle ==
    /\ e_pc = "idle"
    /\ e_base_url = <<>>
    /\ e_anchors = <<>>
    /\ e_urls = <<>>
    /\ e_page = NoMarkup
    /\ e_results = <<>>

\* No crawl_url call made yet.
NoCall ==
    [url |-> [is_str |-> TRUE, val |-> ""], depth |-> 0, re_crawl |-> FALSE,
     outcome |-> "none", before |-> <<>>]

SIdle == s_last = NoCall

\* No capture_exception call made yet.
NoCapture ==
    [made |-> FALSE, enabled |-> FALSE, handlers |-> <<>>, called |-> <<>>,
     raised |-> FALSE]

\* ErrorTracker() as constructed by default, nothing registered
\* (error_tracking.py:32-35).
TIdle ==
    /\ tracker = [enabled |-> TRUE, sentry_enabled |-> FALSE, custom_handlers |-> <<>>]
    /\ t_last = NoCapture

\* QueueFactory.WorkerType (queue.py:28-31)
WorkerTypes == {"PANEL", "APP", "DETECTOR", "CRAWLER"}

\* A cache slot: None, or a client object together with whether its ping
\* has succeeded.
NoHandle == [cached |-> FALSE, pinged |-> FALSE]

NoGet == [made |-> FALSE, target |-> "none", up |-> FALSE, outcome |-> "none"]

\* A new QueueFactory and DatabaseConnection (queue.py:55-60,
\* database.py:28), both servers reachable.
FIdle ==
    /\ f_connections = [wt \in WorkerTypes |-> NoHandle]
    /\ d_client = NoHandle
    /\ net = [redis |-> TRUE, mongo |-> TRUE]
    /\ f_last = NoGet

\* SessionCaptcha() without an app (captchar.py:55-59) and a new session.
KIdle ==
    /\ k_enabled = TRUE
    /\ k_ready = FALSE
    /\ k_session = <<>>
    /\ k_hist = <<>>

\* The components around the crawl engine are at rest.
AIdle == SIdle /\ TIdle /\ FIdle /\ KIdle

Init == QInit /\ CInit /\ EIdle /\ AIdle

QNext == QAttempt \/ QReturn

SpecQuery == Init /\ [][QNext]_vars

Next ==
    \/ Seed
    \/ \E w \in Workers : Take(w)
    \/ \E w \in Workers : Process(w)
    \/ \E w \in Workers : CheckExists(w)
    \/ \E w \in Workers : Update(w)
    \/ \E w \in Workers : Lookup(w)
    \/ \E w \in Workers : Create(w)
    \/ \E w \in Workers : Enqueue(w)
    \/ \E w \in Workers : Finish(w)

Spec == Init /\ [][Next]_vars

----------------------------------------------------------------------------
\* One crawl invocation on its own: the last job of the window, started from
\* the stores an earlier invocation can have left.

\* An earlier crawl of url that fetched r.
PriorInvocation(url, r) ==
    [Idle EXCEPT !.job = [url |-> url, parent |-> 0, depth |-> MaxDepth,
                          is_onion |-> TRUE, in_scope |-> FALSE, re_crawl |-> TRUE,
                          hops |-> 0, root |-> MaxDepth],
                 !.inv = 1, !.response = r]

PriorResponses ==
    {[status |-> HTTP_SERVICE_UNAVAILABLE, has_html |-> FALSE, page |-> NoPage],
     [status |-> HTTP_OK, has_html |-> TRUE,
      page |-> [links |-> LinkList(MaxLinks), shape |-> "ok"]]}

\* The store is empty, or holds the one document an earlier crawl created
\* (process_crawl with create, spider.py:282-285, 231).
PriorStores ==
    {<<>>} \cup
    {<<SetFields(FullData(PriorInvocation(u, r)), [_id |-> 1])>> :
        u \in Urls, r \in PriorResponses}

\* The jobs a caller submits (crawler_service.py:107-112).
SeedJobs ==
    {[url |-> u, parent |-> 0, depth |-> d, is_onion |-> TRUE, in_scope |-> FALSE,
      re_crawl |-> rc, hops |-> 0, root |-> d] :
        u \in Urls, d \in 0..MaxDepth, rc \in BOOLEAN}

\* The jobs the crawl that created the stored document has enqueued
\* (spider.py:251-259).
ChildJobsOf(st) ==
    IF st # <<>> /\ "links" \in DOMAIN st[1]
    THEN LET jobs == Lineage(FanOutJobs(st[1].links, 1, MaxDepth),
                             PriorInvocation(st[1].url, NoResponse).job)
         IN {jobs[p] : p \in 1..Len(jobs)}
    ELSE {}

InitOne ==
    /\ QInit
    /\ EIdle
    /\ AIdle
    /\ store \in PriorStores
    /\ created = [i \in 1..Len(store) |->
                     [inv |-> 1, checked_at |-> 0, check_failed |-> FALSE]]
    /\ queue \in {<<j>> : j \in SeedJobs \cup ChildJobsOf(store)}
    /\ wk = [w \in Workers |-> Idle]
    /\ started = MaxJobs - 1
    /\ job_limit = MaxJobs
    /\ seeded = MaxSeeds
    /\ faults = 0

NextOne ==
    \/ \E w \in Workers : Take(w)
    \/ \E w \in Workers : Process(w)
    \/ \E w \in Workers : CheckExists(w)
    \/ \E w \in Workers : Update(w)
    \/ \E w \in Workers : Lookup(w)
    \/ \E w \in Workers : Create(w)
    \/ \E w \in Workers : Enqueue(w)
    \/ \E w \in Workers : Finish(w)

SpecOne == InitOne /\ [][NextOne]_vars

----------------------------------------------------------------------------
\* The whole crawl that one seed job starts, on an empty store.

RECURSIVE Pow(_, _)
Pow(b, e) == IF e = 0 THEN 1 ELSE b * Pow(b, e - 1)

\* The invocations a crawl of depth D over pages of L links makes when every
\* invocation fans out: one, and for each of its L links one crawl of every
\* depth below D (spider.py:251-259); this is (1 + L)^D.
TreeJobs(depth) == Pow(1 + MaxLinks, depth)

\* One seed job in the queue of an idle system in which one worker process
\* runs; the invocations are followed one further than the fan-out can make.
InitTree ==
    /\ QInit
    /\ EIdle
    /\ AIdle
    /\ store = <<>>
    /\ created = <<>>
    /\ \E j \in SeedJobs :
          /\ queue = <<j>>
          /\ job_limit = TreeJobs(j.depth) + 1
    /\ wk = [w \in Workers |-> IF w = 1 THEN Idle ELSE [Idle EXCEPT !.pc = "stopped"]]
    /\ started = 0
    /\ seeded = MaxSeeds
    /\ faults = 0

NextTree ==
    \/ \E w \in Workers : Take(w)
    \/ \E w \in Workers : Process(w)
    \/ \E w \in Workers : CheckExists(w)
    \/ \E w \in Workers : Update(w)
    \/ \E w \in Workers : Lookup(w)
    \/ \E w \in Workers : Create(w)
    \/ \E w \in Workers : Enqueue(w)
    \/ \E w \in Workers : Finish(w)

\* Every fetch returns and the workers keep taking jobs: a step that can be
\* taken is taken.
SpecTree == InitTree /\ [][NextTree]_vars /\ WF_vars(NextTree)

(***************************************************************************)
(*              Extractor.get_links, html_extractors.py                    *)
(***************************************************************************)

\* A URL or URL reference is kept as the sequence of the parts its text is
\* made of, in the order in which they are written: scheme ("http:"), netloc
\* ("//host"), path, query ("?q=1"), fragment ("#sec1").
Part(kind, val) == [kind |-> kind, val |-> val]

\* The hosts whose name contains ".onion".
OnionHosts == {"example.onion", "other.onion"}

\* The paths that begin with "/".
AbsPaths == {"/a/b", "/c", "/x"}

\* The pages links are extracted from: an onion page, http://example.onion/a/b,
\* and a clear-web page, http://example.com/a/b.
OnionPage ==
    <<Part("scheme", "http"), Part("netloc", "example.onion"), Part("path", "/a/b")>>

ClearPage ==
    <<Part("scheme", "http"), Part("netloc", "example.com"), Part("path", "/a/b")>>

BaseUrls == {OnionPage, ClearPage}

\* The href values of the modelled anchors, one or more of each shape.
AbsoluteHrefs ==
    {<<Part("scheme", "http"), Part("netloc", "other.onion"), Part("path", "/x")>>,
     <<Part("scheme", "http"), Part("netloc", "example.onion"), Part("path", "/c")>>,
     <<Part("scheme", "http"), Part("netloc", "other.com"), Part("path", "/x"),
       Part("query", "q=1"), Part("fragment", "f")>>}

SchemeRelativeHrefs ==
    {<<Part("netloc", "other.onion"), Part("path", "/x")>>,
     <<Part("netloc", "example.onion"), Part("path", "/c")>>}

PathAbsoluteHrefs == {<<Part("path", "/c")>>}

PathRelativeHrefs == {<<Part("path", "page.html")>>}

QueryOnlyHrefs == {<<Part("query", "q=1")>>}

FragmentOnlyHrefs == {<<Part("fragment", "sec1")>>}

Hrefs ==
    AbsoluteHrefs \cup SchemeRelativeHrefs \cup PathAbsoluteHrefs
      \cup PathRelativeHrefs \cup QueryOnlyHrefs \cup FragmentOnlyHrefs

\* The <a> elements of a page: link.get("href") is a string, or None for an
\* anchor without href (html_extractors.py:59).
Anchors ==
    {[has_href |-> TRUE, href |-> h] : h \in Hrefs}
      \cup {[has_href |-> FALSE, href |-> <<>>]}

\* The value of one part of a text, "" if the text does not have it.
Field(text, kind) ==
    IF \E i \in DOMAIN text : text[i].kind = kind
    THEN text[CHOOSE i \in DOMAIN text : text[i].kind = kind].val
    ELSE ""

\* urllib.parse.urlparse (params are not modelled).
urlparse(text) ==
    [scheme |-> Field(text, "scheme"), netloc |-> Field(text, "netloc"),
     path |-> Field(text, "path"), query |-> Field(text, "query"),
     fragment |-> Field(text, "fragment")]

Opt(kind, val) == IF val = "" THEN <<>> ELSE <<Part(kind, val)>>

\* urlunparse puts a "/" before a relative path that follows a netloc.
Rooted(path) == IF path = "page.html" THEN "/page.html" ELSE path

\* urllib.parse.urlunparse((scheme, netloc, path, "", query, fragment)), for
\* the calls get_links makes: empty parts are left out.
urlunparse(scheme, netloc, path, query, fragment) ==
    Opt("scheme", scheme) \o Opt("netloc", netloc)
      \o Opt("path", IF netloc # "" THEN Rooted(path) ELSE path)
      \o Opt("query", query) \o Opt("fragment", fragment)

\* str.startswith for the one-character prefixes get_links tests; a text
\* that begins with its netloc begins with "//".
startswith(text, c) ==
    /\ text # <<>>
    /\ CASE c = "/" -> \/ text[1].kind = "netloc"
                       \/ (text[1].kind = "path" /\ text[1].val \in AbsPaths)
         [] c = "?" -> text[1].kind = "query"
         [] c = "#" -> text[1].kind = "fragment"
         [] OTHER -> FALSE

\* is_onion (html_extractors.py:63): ".onion" in parsed_href.netloc
is_onion_of(netloc) == netloc \in OnionHosts

\* The body of the for loop of get_links (html_extractors.py:59-79): the
\* record appended for an anchor whose href is the text href.
LinkRecord(base_url, href) ==
    LET parsed_url  == urlparse(base_url)
        parsed_href == urlparse(href)
        rebased     == urlunparse(parsed_url.scheme, parsed_url.netloc,
                                  parsed_href.path, parsed_href.query, "")
        \* html_extractors.py:65-66
        href1  == IF parsed_href.netloc # ""
                  THEN urlunparse(parsed_href.scheme, parsed_href.netloc,
                                  parsed_href.path, parsed_href.query, "")
                  ELSE href
        \* html_extractors.py:67-72
        same   == parsed_href.netloc # "" /\ parsed_href.netloc = parsed_url.netloc
        href2  == IF same THEN rebased ELSE href1
        \* html_extractors.py:73-75
        slash  == startswith(href2, "/") \/ startswith(href2, "?")
        href3  == IF slash THEN rebased ELSE href2
        \* html_extractors.py:76-78
        hash   == startswith(href3, "#")
        href4  == IF hash THEN rebased ELSE href3
    IN [url |-> href4, is_onion |-> is_onion_of(parsed_href.netloc),
        in_scope |-> (same \/ slash \/ hash)]

\* One iteration of the for loop (html_extractors.py:58-79); urlparse(None)
\* gives bytes parts, on which the test of line 63 raises TypeError.
GetLinksStep ==
    /\ e_pc = "loop"
    /\ Len(e_urls) < Len(e_anchors)
    /\ LET link == e_anchors[Len(e_urls) + 1]
       IN IF link.has_href
          THEN /\ e_urls' = Append(e_urls, LinkRecord(e_base_url, link.href))
               /\ e_pc' = "loop"
          ELSE /\ e_pc' = "raised"
               /\ UNCHANGED e_urls
    /\ UNCHANGED <<e_base_url, e_anchors, e_page, e_results>>
    /\ UNCHANGED qvars
    /\ UNCHANGED cvars
    /\ UNCHANGED avars

\* return _urls (html_extractors.py:80)
GetLinksReturn ==
    /\ e_pc = "loop"
    /\ Len(e_urls) = Len(e_anchors)
    /\ e_pc' = "done"
    /\ UNCHANGED <<e_base_url, e_anchors, e_urls, e_page, e_results>>
    /\ UNCHANGED qvars
    /\ UNCHANGED cvars
    /\ UNCHANGED avars

\* An Extractor for a page with up to MaxAnchors anchors, get_links called
\* (html_extractors.py:26-36, 56-57).
EInit ==
    /\ e_pc = "loop"
    /\ e_base_url \in BaseUrls
    /\ e_anchors \in UNION {[1..n -> Anchors] : n \in 0..MaxAnchors}
    /\ e_urls = <<>>
    /\ e_page = NoMarkup
    /\ e_results = <<>>

InitLinks == QInit /\ CInit /\ EInit /\ AIdle

NextLinks == GetLinksStep \/ GetLinksReturn

SpecLinks == InitLinks /\ [][NextLinks]_vars

(***************************************************************************)
(*            The accessors of Extractor, html_extractors.py               *)
(***************************************************************************)

Accessors ==
    {"get_title", "get_body", "get_links", "get_img_links", "get_emails",
     "get_bitcoin_addrs", "get_eth_addrs", "get_monero_addrs"}

\* The words of a body text that the patterns of the address accessors and
\* of get_emails match (html_extractors.py:150, 187, 207, 227).
EthWords == {"0x52908400098527886E0F7030069857D2E4169EE7"}
BtcWords == {"1BoatSLRHtKNngkdXEeobR76b53LETtpyT"}
XmrWords == {"4AdUndXHHZ6cfufTMvppY6JwXNouMBzSkbLYfpAV5Usx3skxNgYeYTRj5UzqtReoS44qo9mtmXCqY45DJ852K5Jv2684Rge"}
EmailWords == {"admin@example.onion"}

\* The body texts of the modelled pages, as sequences of words: empty, with
\* no match of any pattern, and with matches.
BodyTexts ==
    {<<>>,
     <<"hello">>,
     <<"hello", "0x52908400098527886E0F7030069857D2E4169EE7">>,
     <<"1BoatSLRHtKNngkdXEeobR76b53LETtpyT", "admin@example.onion">>}

\* The <img> elements: link.get("src") is a string, or None for an image
\* without src (html_extractors.py:127).
Images ==
    {[has_src |-> TRUE, src |-> <<Part("path", "/i.png")>>],
     [has_src |-> TRUE, src |-> <<Part("scheme", "http"), Part("netloc", "other.onion"),
                                   Part("path", "/x")>>],
     [has_src |-> FALSE, src |-> <<>>]}

\* The pages the accessors are called on: with or without a title element,
\* without a body element or with one of the body texts, with no image or
\* one image.
Markups ==
    {[has_title |-> t, has_body |-> FALSE, text |-> <<>>, imgs |-> i] :
        t \in BOOLEAN, i \in {<<>>} \cup {<<g>> : g \in Images}}
      \cup {[has_title |-> t, has_body |-> TRUE, text |-> b, imgs |-> i] :
               t \in BOOLEAN, b \in BodyTexts, i \in {<<>>} \cup {<<g>> : g \in Images}}

\* The outcomes of an accessor call: an exception, None, or a value (a list,
\* or a text as the list of its words).
Raised == [raised |-> TRUE, is_none |-> FALSE, val |-> <<>>]
None == [raised |-> FALSE, is_none |-> TRUE, val |-> <<>>]
Value(v) == [raised |-> FALSE, is_none |-> FALSE, val |-> v]

\* re.findall over a text: the matching words, in order.
RECURSIVE findall(_, _)
findall(words, text) ==
    IF text = <<>> THEN <<>>
    ELSE (IF Head(text) \in words THEN <<Head(text)>> ELSE <<>>)
           \o findall(words, Tail(text))

\* Extractor.get_body (html_extractors.py:89-96): soup.body is None for a
\* page without body element, and the AttributeError is caught.
get_body(page) == IF page.has_body THEN Value(page.text) ELSE None

\* Extractor.get_title (html_extractors.py:105-112)
get_title(page) == IF page.has_title THEN Value(<<"title">>) ELSE None

\* Extractor.get_emails (html_extractors.py:149-154), on self.html.
get_emails(page) == Value(findall(EmailWords, page.text))

\* The address accessors (html_extractors.py:184-192, 204-212, 224-232):
\* "if body_text:" is false for None and for the empty text.
get_addrs(words, page) ==
    LET body_text == get_body(page)
    IN IF ~body_text.is_none /\ body_text.val # <<>>
       THEN Value(findall(words, body_text.val))
       ELSE None

get_bitcoin_addrs(page) == get_addrs(BtcWords, page)

get_eth_addrs(page) == get_addrs(EthWords, page)

get_monero_addrs(page) == get_addrs(XmrWords, page)

\* Extractor.get_links as a whole (html_extractors.py:56-80): the TypeError
\* of an anchor without href leaves the method.
get_links(base_url, anchors) ==
    IF \E i \in DOMAIN anchors : ~anchors[i].has_href
    THEN Raised
    ELSE Value([i \in DOMAIN anchors |-> LinkRecord(base_url, anchors[i].href)])

\* The body of the for loop of get_img_links (html_extractors.py:127-137).
ImgLink(base_url, src) ==
    LET parsed_url == urlparse(base_url)
        parsed_src == urlparse(src)
        rebased    == urlunparse(parsed_url.scheme, parsed_url.netloc,
                                 parsed_src.path, parsed_src.query, "")
        src1 == IF parsed_src.netloc # ""
                THEN urlunparse(parsed_src.scheme, parsed_src.netloc,
                                parsed_src.path, parsed_src.query, "")
                ELSE src
        src2 == IF parsed_src.netloc # "" /\ parsed_src.netloc = parsed_url.netloc
                THEN rebased ELSE src1
    IN IF startswith(src2, "/") \/ startswith(src2, "?") THEN rebased ELSE src2

\* Extractor.get_img_links (html_extractors.py:124-138): for an image
\* without src urlparse(None) gives bytes parts, src becomes the bytes b""
\* and src.startswith("/") raises TypeError (html_extractors.py:135).
get_img_links(base_url, imgs) ==
    IF \E i \in DOMAIN imgs : ~imgs[i].has_src
    THEN Raised
    ELSE Value([i \in DOMAIN imgs |-> ImgLink(base_url, imgs[i].src)])

\* The outcome of calling accessor acc on the Extractor of a page.
Access(acc, base_url, anchors, page) ==
    CASE acc = "get_title" -> get_title(page)
      [] acc = "get_body" -> get_body(page)
      [] acc = "get_links" -> get_links(base_url, anchors)
      [] acc = "get_img_links" -> get_img_links(base_url, page.imgs)
      [] acc = "get_emails" -> get_emails(page)
      [] acc = "get_bitcoin_addrs" -> get_bitcoin_addrs(page)
      [] acc = "get_eth_addrs" -> get_eth_addrs(page)
      [] acc = "get_monero_addrs" -> get_monero_addrs(page)

\* A caller calls one accessor of the Extractor; the Extractor keeps no
\* state between calls, whatever the outcome.
CallAccessor ==
    /\ e_pc = "calls"
    /\ Len(e_results) < MaxCalls
    /\ \E acc \in Accessors :
         e_results' = Append(e_results,
                        [accessor |-> acc,
                         result |-> Access(acc, e_base_url, e_anchors, e_page)])
    /\ UNCHANGED <<e_pc, e_base_url, e_anchors, e_urls, e_page>>
    /\ UNCHANGED qvars
    /\ UNCHANGED cvars
    /\ UNCHANGED avars

\* An Extractor built for a page (html_extractors.py:26-36).
EInitAccessors ==
    /\ e_pc = "calls"
    /\ e_base_url = OnionPage
    /\ e_anchors \in {<<>>, <<[has_href |-> TRUE, href |-> <<Part("path", "/c")>>]>>,
                       <<[has_href |-> FALSE, href |-> <<>>]>>}
    /\ e_urls = <<>>
    /\ e_page \in Markups
    /\ e_results = <<>>

InitAccessors == QInit /\ CInit /\ EInitAccessors /\ AIdle

NextAccessors == CallAccessor

SpecAccessors == InitAccessors /\ [][NextAccessors]_vars

(***************************************************************************)
(*          CrawlerService.crawl_url, services/crawler_service.py          *)
(***************************************************************************)

\* The url arguments callers pass: the modelled URLs, the empty string, and
\* a value that is not a string.
UrlArgs ==
    {[is_str |-> TRUE, val |-> u] : u \in Urls \cup {""}}
      \cup {[is_str |-> FALSE, val |-> ""]}

\* The depth arguments callers pass: integers from below 0 to above
\* MAX_CRAWL_DEPTH.
DepthArgs == (0 - 1)..(MAX_CRAWL_DEPTH + 1)

\* crawler_service.py:94: not (not url or not isinstance(url, str))
ValidUrl(url) == url.is_str /\ url.val # ""

\* A variant of ValidDepth without the upper limit.
ValidDepthNoLimit(depth) == ~(depth < 0)

\* crawler_service.py:98: not (depth < 0 or depth > MAX_CRAWL_DEPTH)
ValidDepth(depth) == ~(depth < 0 \/ depth > MAX_CRAWL_DEPTH)

\* The job crawl_url enqueues (crawler_service.py:107-112) with the default
\* parent_id, is_onion and in_scope.
SeedJob(url, depth, re_crawl) ==
    [url |-> url.val, parent |-> 0, depth |-> depth, is_onion |-> TRUE,
     in_scope |-> FALSE, re_crawl |-> re_crawl, hops |-> 0, root |-> depth]

\* CrawlerService.crawl_url (crawler_service.py:92-121): validation, then
\* the enqueue_call, which the queue accepts (ok) or fails.
crawl_url ==
    /\ seeded < MaxSeeds
    /\ \E url \in UrlArgs, depth \in DepthArgs, re_crawl \in BOOLEAN, ok \in BOOLEAN :
         LET outcome == IF ~ValidUrl(url) \/ ~ValidDepth(depth) THEN "ValidationError"
                        ELSE IF ok THEN "job" ELSE "CrawlerError"
         IN /\ queue' = IF outcome = "job"
                        THEN Append(queue, SeedJob(url, depth, re_crawl))
                        ELSE queue
            /\ s_last' = [url |-> url, depth |-> depth, re_crawl |-> re_crawl,
                          outcome |-> outcome, before |-> queue]
    /\ seeded' = seeded + 1
    /\ UNCHANGED <<store, created, wk, started, faults, job_limit>>
    /\ UNCHANGED qvars
    /\ UNCHANGED evars
    /\ UNCHANGED <<tvars, fvars, kvars>>

InitService == QInit /\ CInit /\ EIdle /\ AIdle

NextService == crawl_url

SpecService == InitService /\ [][NextService]_vars

(***************************************************************************)
(*                 ErrorTracker, web/error_tracking.py                     *)
(***************************************************************************)

\* A variant of HandlerCalls without the try/except around the handler: the
\* first handler that raises ends the loop.
HandlerCallsUntilRaise(handlers) ==
    IF \E k \in DOMAIN handlers : handlers[k].raises
    THEN SubSeq(handlers, 1,
                CHOOSE k \in DOMAIN handlers :
                    /\ handlers[k].raises
                    /\ \A j \in DOMAIN handlers : handlers[j].raises => k <= j)
    ELSE handlers

\* The handler calls of the loop of capture_exception
\* (error_tracking.py:110-114): every handler in list order, an exception of
\* a handler being caught and logged.
HandlerCalls(handlers) == handlers

\* tracker.enabled = b, by assignment or by init_app
\* (error_tracking.py:48, test_error_handling.py:114).
SetEnabled ==
    /\ \E b \in BOOLEAN : tracker' = [tracker EXCEPT !.enabled = b]
    /\ UNCHANGED t_last
    /\ UNCHANGED <<qvars, cvars, evars, svars, fvars, kvars>>

\* ErrorTracker.add_custom_handler (error_tracking.py:160-169); the handler
\* registered is one that returns or one that raises when called.
add_custom_handler ==
    /\ Len(tracker.custom_handlers) < MaxHandlers
    /\ \E r \in BOOLEAN :
         tracker' = [tracker EXCEPT !.custom_handlers =
                        Append(@, [id |-> Len(@) + 1, raises |-> r])]
    /\ UNCHANGED t_last
    /\ UNCHANGED <<qvars, cvars, evars, svars, fvars, kvars>>

\* ErrorTracker.capture_exception (error_tracking.py:102-114);
\* _capture_with_sentry catches whatever Sentry raises
\* (error_tracking.py:130-158).
capture_exception ==
    /\ t_last' = [made |-> TRUE,
                  enabled |-> tracker.enabled,
                  handlers |-> tracker.custom_handlers,
                  called |-> IF ~tracker.enabled THEN <<>>
                             ELSE HandlerCalls(tracker.custom_handlers),
                  raised |-> FALSE]
    /\ UNCHANGED tracker
    /\ UNCHANGED <<qvars, cvars, evars, svars, fvars, kvars>>

\* An ErrorTracker as constructed or as init_app leaves it
\* (error_tracking.py:32-35, 48-53).
TInit ==
    /\ tracker \in [enabled : BOOLEAN, sentry_enabled : BOOLEAN, custom_handlers : {<<>>}]
    /\ tracker.sentry_enabled => tracker.enabled
    /\ t_last = NoCapture

InitTracker == QInit /\ CInit /\ EIdle /\ SIdle /\ TInit /\ FIdle /\ KIdle

NextTracker == SetEnabled \/ add_custom_handler \/ capture_exception

SpecTracker == InitTracker /\ [][NextTracker]_vars

(***************************************************************************)
(*   QueueFactory.get_connection and DatabaseConnection.get_client,        *)
(*              infrastructure/queue.py and database.py                    *)
(***************************************************************************)

\* The lazy connect of get_connection (queue.py:82-104) and of get_client
\* (database.py:73-92) on a cache slot: an empty slot is first assigned the
\* new client object, which is then pinged; a failed ping is logged and
\* re-raised. The pair of the slot afterwards and of the outcome.
Connect(slot, up) ==
    IF ~slot.cached
    THEN IF up
         THEN <<[cached |-> TRUE, pinged |-> TRUE], "handle">>
         ELSE <<[cached |-> TRUE, pinged |-> FALSE], "raised">>
    ELSE <<slot, "handle">>

\* QueueFactory.get_connection (queue.py:79-104)
get_connection ==
    /\ \E wt \in WorkerTypes :
         /\ f_connections' = [f_connections EXCEPT ![wt] = Connect(@, net.redis)[1]]
         /\ f_last' = [made |-> TRUE, target |-> wt, up |-> net.redis,
                       outcome |-> Connect(f_connections[wt], net.redis)[2]]
    /\ UNCHANGED <<d_client, net>>
    /\ UNCHANGED <<qvars, cvars, evars, svars, tvars, kvars>>

\* DatabaseConnection.get_client (database.py:73-92)
get_client ==
    /\ d_client' = Connect(d_client, net.mongo)[1]
    /\ f_last' = [made |-> TRUE, target |-> "MONGO", up |-> net.mongo,
                  outcome |-> Connect(d_client, net.mongo)[2]]
    /\ UNCHANGED <<f_connections, net>>
    /\ UNCHANGED <<qvars, cvars, evars, svars, tvars, kvars>>

\* QueueFactory.close_all (queue.py:135-139)
close_all ==
    /\ f_connections' = [wt \in WorkerTypes |-> NoHandle]
    /\ UNCHANGED <<d_client, net, f_last>>
    /\ UNCHANGED <<qvars, cvars, evars, svars, tvars, kvars>>

\* DatabaseConnection.close (database.py:114-117)
close ==
    /\ d_client' = NoHandle
    /\ UNCHANGED <<f_connections, net, f_last>>
    /\ UNCHANGED <<qvars, cvars, evars, svars, tvars, kvars>>

\* A server goes down or comes back.
NetChange ==
    /\ \E r \in BOOLEAN, g \in BOOLEAN : net' = [redis |-> r, mongo |-> g]
    /\ UNCHANGED <<f_connections, d_client, f_last>>
    /\ UNCHANGED <<qvars, cvars, evars, svars, tvars, kvars>>

InitFactory == QInit /\ CInit /\ EIdle /\ AIdle

NextFactory == get_connection \/ get_client \/ close_all \/ close \/ NetChange

SpecFactory == InitFactory /\ [][NextFactory]_vars

(***************************************************************************)
(*                  SessionCaptcha, web/captchar.py                        *)
(***************************************************************************)

\* Texts are sequences of characters; <<>> is the empty text and stands for
\* None as well: validate tests both with "not" (captchar.py:146, 150, 153).
\* Two characters of CAPTCHA_CHAR_POOL (constants.py:202).
CaptchaChars == {"q", "1"}

\* CAPTCHA_LENGTH, shortened.
CaptchaDigits == 2

\* The answers generate can store: CaptchaDigits characters of the pool
\* (captchar.py:104-112).
Answers == [1..CaptchaDigits -> CaptchaChars]

\* What a client can send as the captcha form field, or pass as value.
Typed == Answers \cup {<<>>, <<" ">>, <<" ", "q", "1", " ">>}

\* The request form: the captcha field is absent, or holds a text.
Forms == {[present |-> FALSE, text |-> <<>>]} \cup
         {[present |-> TRUE, text |-> t] : t \in Typed}

\* str.strip() (captchar.py:151)
RECURSIVE lstrip(_)
lstrip(t) == IF t # <<>> /\ Head(t) = " " THEN lstrip(Tail(t)) ELSE t

RECURSIVE rstrip(_)
rstrip(t) ==
    IF t # <<>> /\ t[Len(t)] = " " THEN rstrip(SubSeq(t, 1, Len(t) - 1)) ELSE t

strip(t) == rstrip(lstrip(t))

\* The value validate compares: the argument, or without one the stripped
\* form field (captchar.py:149-151).
Submitted(form, value) ==
    IF value = <<>> /\ form.present THEN strip(form.text) ELSE value

\* A variant of validate that leaves the stored answer in the session.
validate_keeps_answer(enabled, session_value, form, value) ==
    IF ~enabled THEN [session |-> session_value, valid |-> TRUE, error |-> "none"]
    ELSE IF session_value = <<>>
         THEN [session |-> session_value, valid |-> FALSE, error |-> "expired"]
         ELSE LET v == Submitted(form, value)
              IN IF v = <<>>
                 THEN [session |-> session_value, valid |-> FALSE, error |-> "missing"]
                 ELSE IF v # session_value
                      THEN [session |-> session_value, valid |-> FALSE, error |-> "invalid"]
                      ELSE [session |-> session_value, valid |-> TRUE, error |-> "none"]

\* SessionCaptcha.validate (captchar.py:123-159): the session afterwards and
\* the pair returned.
validate(enabled, session_value, form, value) ==
    IF ~enabled THEN [session |-> session_value, valid |-> TRUE, error |-> "none"]
    ELSE IF session_value = <<>>
         THEN [session |-> <<>>, valid |-> FALSE, error |-> "expired"]
         ELSE LET v == Submitted(form, value)
              IN IF v = <<>>
                 THEN [session |-> <<>>, valid |-> FALSE, error |-> "missing"]
                 ELSE IF v # session_value
                      THEN [session |-> <<>>, valid |-> FALSE, error |-> "invalid"]
                      ELSE [session |-> <<>>, valid |-> TRUE, error |-> "none"]

\* SessionCaptcha.init_app (captchar.py:64-89)
init_app ==
    /\ \E enable \in BOOLEAN : k_enabled' = enable
    /\ k_ready' = TRUE
    /\ UNCHANGED <<k_session, k_hist>>
    /\ UNCHANGED <<qvars, cvars, evars, svars, tvars, fvars>>

\* SessionCaptcha.generate (captchar.py:90-121): without an image generator
\* it raises RuntimeError before it touches the session.
generate ==
    /\ IF k_ready
       THEN /\ \E answer \in Answers : k_session' = answer
            /\ k_hist' = <<>>
       ELSE UNCHANGED <<k_session, k_hist>>
    /\ UNCHANGED <<k_enabled, k_ready>>
    /\ UNCHANGED <<qvars, cvars, evars, svars, tvars, fvars>>

\* One call of SessionCaptcha.validate (captchar.py:123-159) in a request
\* with the form `form`.
CallValidate ==
    /\ Len(k_hist) < MaxValidates
    /\ \E form \in Forms, value \in Typed :
         LET r == validate(k_enabled, k_session, form, value)
         IN /\ k_session' = r.session
            /\ k_hist' = Append(k_hist,
                             [enabled |-> k_enabled, value |-> Submitted(form, value),
                              stored |-> k_session,
                              valid |-> r.valid, error |-> r.error])
    /\ UNCHANGED <<k_enabled, k_ready>>
    /\ UNCHANGED <<qvars, cvars, evars, svars, tvars, fvars>>

InitCaptcha == QInit /\ CInit /\ EIdle /\ AIdle

NextCaptcha == init_app \/ generate \/ CallValidate

SpecCaptcha == InitCaptcha /\ [][NextCaptcha]_vars

(***************************************************************************)
(*                        Properties of query(url)                         *)
(***************************************************************************)

\* The result of query, as the Spider reads it, is one of FetchResults or
\* carries another listed status without html.
QueryResultShape ==
    q_pc = "done" =>
        /\ resp.status \in http_codes
        /\ resp.has_html <=> (resp.status = HTTP_OK)

AllTransportErrors == \A i \in 1..Len(q_hist) : q_hist[i].kind = "pycurl.error"

\* C2: if the transport raises an error on every attempt, query makes exactly
\* max_try_count attempts, then returns status 503 without html; it never
\* raises to its caller.
C2_RetryBound ==
    AllTransportErrors =>
        /\ q_pc # "raised"
        /\ q_attempts <= max_try_count
        /\ (q_pc = "loop" /\ q_attempts < max_try_count) => try_count < max_try_count
        /\ (q_pc = "loop" /\ q_attempts = max_try_count) => try_count >= max_try_count
        /\ q_pc = "done" =>
              /\ q_attempts = max_try_count
              /\ resp.status = HTTP_SERVICE_UNAVAILABLE
              /\ ~resp.has_html

\* C2 witness: query has returned after three attempts that all ended in a
\* transport error.
C2_Witness ==
    /\ q_pc = "done"
    /\ Len(q_hist) = max_try_count
    /\ AllTransportErrors

\* C3 as claimed: whatever the outcomes of the attempts, query performs at
\* most max_try_count attempts.
C3_AtMostMaxAttempts == q_attempts <= max_try_count

\* The buffer as it was when attempt i decoded it.
DecodedAt(i) ==
    \A k \in 1..Len(output) : output[k].att <= i => output[k].bytes = "text"

\* C4 as claimed: as soon as an attempt completes a connection and the server
\* answers with a status code (the body being decodable text), query makes no
\* further attempt and returns a result with exactly that status.
C4_ReturnsServerStatus ==
    \A i \in 1..Len(q_hist) :
        (q_hist[i].kind = "response" /\ DecodedAt(i)) =>
            /\ i = Len(q_hist)
            /\ try_count >= max_try_count
            /\ resp.status = q_hist[i].code

(***************************************************************************)
(*                   Properties of the crawl invocations                   *)
(***************************************************************************)

Running == {w \in Workers : wk[w].pc # "idle"}

Ended == {w \in Workers : wk[w].pc \in {"done", "raised"}}

\* C1: the exists-then-create step is not atomic. Two documents with the same
\* URL whose creators' existence checks both succeeded can only come from the
\* race: the creator of the later document made its check before the earlier
\* document was inserted, and called create after it.
C1_DuplicatesOnlyByRace ==
    \A i \in 1..Len(store) : \A j \in 1..Len(store) :
        (i < j /\ store[i].url = store[j].url /\ ~created[j].check_failed)
            => created[j].checked_at < i

\* C1 witness: with no store call failing, two concurrent invocations for a
\* URL the store did not hold both saw is_url_exist = false and both created
\* a document: the store holds two documents with the same URL.
C1_Witness ==
    /\ faults = 0
    /\ \E i \in 1..Len(store) : \E j \in 1..Len(store) :
         /\ i < j
         /\ store[i].url = store[j].url
         /\ created[i].checked_at = 0
         /\ created[j].checked_at = 0
         /\ created[i].inv # created[j].inv

\* C5 as claimed: no exception propagates out of a crawl invocation.
C5_NoException == \A w \in Workers : wk[w].pc # "raised"

\* C6 as claimed: every invocation whose store calls all succeed leaves a
\* document for its URL in the store when it ends.
C6_FailOpen ==
    \A w \in Ended : ~wk[w].sfail => url_exists(wk[w].job.url)

\* C7 as claimed: with a document for the URL already in the store and
\* re_crawl = false, process_crawl returns the identity of the existing
\* document.
C7_ReturnsExistingIdentity ==
    \A w \in Workers :
        (wk[w].pc = "done" /\ wk[w].pre_exist /\ ~wk[w].job.re_crawl)
            => /\ wk[w].ret # 0
               /\ wk[w].ret = FirstMatch(wk[w].job.url)

\* C8 as claimed: an invocation with re_crawl = false for a URL that already
\* has a document performs no store write.
C8_NoWrite ==
    \A w \in Running :
        (wk[w].pre_exist /\ ~wk[w].job.re_crawl) => wk[w].writes = 0

\* The number of positions of a sequence that hold a value.
Count(seq, x) == Cardinality({p \in 1..Len(seq) : seq[p] = x})

\* C9: an invocation with depth D > 0 whose page yields L links, whose upsert
\* returned the document's identity and none of whose enqueue calls failed
\* has enqueued exactly D x L child jobs: every link once for every
\* remainingDepth in 0..D-1, with the document's identity as parent.
C9_FanOutCount ==
    \A w \in Workers :
        (/\ wk[w].pc = "done"
         /\ wk[w].job.depth > 0
         /\ "links" \in DOMAIN wk[w].data
         /\ wk[w].ret # 0
         /\ ~wk[w].efail)
        => LET links == wk[w].data.links
               D     == wk[w].job.depth
           IN /\ Len(wk[w].enq) = D * Len(links)
              /\ \A d \in 0..(D - 1) : \A i \in 1..Len(links) :
                    Count(wk[w].enq,
                          [url |-> links[i].url, parent |-> wk[w].ret, depth |-> d,
                           is_onion |-> links[i].is_onion,
                           in_scope |-> links[i].in_scope, re_crawl |-> TRUE])
                      = Count(links, links[i])
              /\ \A p \in 1..Len(wk[w].enq) : wk[w].enq[p].depth \in 0..(D - 1)

\* C9 witness: an invocation with depth 2 and a page of 2 links has ended
\* with 4 child jobs enqueued.
C9_Witness ==
    \E w \in Workers :
        /\ wk[w].pc = "done"
        /\ wk[w].job.depth = 2
        /\ "links" \in DOMAIN wk[w].data
        /\ Len(wk[w].data.links) = 2
        /\ wk[w].ret # 0
        /\ ~wk[w].efail
        /\ Len(wk[w].enq) = 4

\* C10: a job with remainingDepth = 0 is fetched and persisted like any
\* other, but makes no enqueue call, whatever links its page has.
C10_DepthZeroNoChildren ==
    \A w \in Running :
        wk[w].job.depth = 0 =>
            /\ wk[w].pc # "fanout"
            /\ wk[w].calls = <<>>
            /\ wk[w].enq = <<>>
            /\ (wk[w].pc = "done" /\ ~wk[w].sfail) => url_exists(wk[w].job.url)

\* C10 witness: a depth-0 job whose page has links has persisted its
\* document and ended.
C10_Witness ==
    \E w \in Workers :
        /\ wk[w].pc = "done"
        /\ wk[w].job.depth = 0
        /\ "links" \in DOMAIN wk[w].data
        /\ wk[w].data.links # <<>>
        /\ wk[w].writes = 1
        /\ wk[w].ret # 0

(***************************************************************************)
(*                  Properties of the recursive fan-out                    *)
(***************************************************************************)

\* A job respects the depth of its seed: its remainingDepth is not negative
\* and, added to the enqueue steps that led to it, does not exceed the depth
\* the seed was submitted with.
WithinSeedDepth(job) ==
    /\ job.depth >= 0
    /\ job.hops <= job.root
    /\ job.hops + job.depth <= job.root

\* C11: every job ever enqueued has a remainingDepth >= 0 that is strictly
\* smaller than the depth of the job that enqueued it; so every job that is
\* queued or fetched is at most root (the seed's depth D) enqueue steps away
\* from its seed.
C11_DepthBounded ==
    /\ \A p \in 1..Len(queue) : WithinSeedDepth(queue[p])
    /\ \A w \in Running :
          /\ WithinSeedDepth(wk[w].job)
          /\ \A p \in 1..Len(wk[w].calls) :
                /\ wk[w].calls[p].depth >= 0
                /\ wk[w].calls[p].depth < wk[w].job.depth

\* C11 witness: a job that a seed of depth 2 or more has enqueued with
\* remainingDepth 1 has itself enqueued children.
C11_Witness ==
    \E w \in Workers :
        /\ wk[w].pc = "done"
        /\ wk[w].job.hops = 1
        /\ wk[w].job.depth = 1
        /\ wk[w].enq # <<>>
        /\ \E p \in 1..Len(queue) : queue[p].hops = 2

\* C12 as claimed: an invocation one of whose upsert store calls (existence
\* check, create, update, lookup) has failed makes no enqueue call.
C12_StoreFailureAbortsFanOut ==
    \A w \in Running :
        wk[w].sfail => (wk[w].pc # "fanout" /\ wk[w].calls = <<>>)

\* C13: when one enqueue call of a fan-out fails, the failure is skipped:
\* all D x L calls are made, every call but the failed one has put its job on
\* the queue, in order, and the invocation returns the document identity.
C13_EnqueueFailureSkipped ==
    \A w \in Workers :
        (wk[w].pc = "done" /\ wk[w].failed # {}) =>
            LET calls == wk[w].calls
                good  == (1..Len(calls)) \ wk[w].failed
            IN /\ Len(calls) = wk[w].job.depth * Len(wk[w].data.links)
               /\ Len(wk[w].enq) = Cardinality(good)
               /\ \A p \in good :
                     Count(wk[w].enq, calls[p]) =
                         Cardinality({q \in good : calls[q] = calls[p]})
               /\ Len(queue) >= Len(wk[w].enq)
               /\ \A k \in 1..Len(wk[w].enq) :
                     LET job == queue[Len(queue) - Len(wk[w].enq) + k]
                     IN /\ job.url = wk[w].enq[k].url
                        /\ job.depth = wk[w].enq[k].depth
                        /\ job.parent = wk[w].ret
               /\ wk[w].ret # 0
               /\ wk[w].ret \in 1..Len(store)
               /\ store[wk[w].ret].url = wk[w].job.url

\* C13 witness: the first of the four enqueue calls of a fan-out has failed
\* and the other three jobs are on the queue.
C13_Witness ==
    \E w \in Workers :
        /\ wk[w].pc = "done"
        /\ wk[w].failed = {1}
        /\ Len(wk[w].calls) = 4
        /\ Len(wk[w].enq) = 3
        /\ Len(queue) = 3

(***************************************************************************)
(*                   Properties of the stored documents                    *)
(***************************************************************************)

\* The fields _build_full_document_data adds for a fetched page.
ContentFields == {"html", "title", "body", "links", "images", "addresses", "capture_id"}

\* The invocations that have updated the existing document of their URL.
Updated == {w \in Running : wk[w].seen /\ wk[w].job.re_crawl /\ wk[w].writes = 1}

\* C14 as claimed: once a re-crawl has updated the existing document, the
\* document holds only what this crawl produced; after a fetch that did not
\* return status 200 it has no content field left over from an earlier crawl.
C14_ReCrawlOverwrites ==
    \A w \in Updated :
        LET doc == store[FirstMatch(wk[w].job.url)]
        IN /\ (DOMAIN doc) \ {"_id"} = DOMAIN wk[w].data
           /\ wk[w].response.status # HTTP_OK => (DOMAIN doc) \cap ContentFields = {}

(***************************************************************************)
(*            Properties of query(url) and of the payload built            *)
(*                            from its result                              *)
(***************************************************************************)

\* The Spider that crawl_with_depth builds for url once query has returned
\* res and the markup of the body, if any, is page (spider.py:110-124).
SpiderOf(url, res, page) ==
    PriorInvocation(url, [status |-> res.status, has_html |-> res.has_html,
                          page |-> IF res.has_html THEN page ELSE NoPage])

\* C15: html is present exactly when the fetch succeeded with status 200:
\* the result query returns carries html iff its status is 200, and the
\* payload the Spider builds from that result for the store carries html and
\* the extracted fields iff the status is 200.
C15_HtmlIffOk ==
    q_pc = "done" =>
        /\ resp.has_html <=> (resp.status = HTTP_OK)
        /\ \A url \in Urls : \A page \in Pages :
              ~ExtractionRaises(page) =>
                  LET data == FullData(SpiderOf(url, resp, page))
                  IN /\ ("html" \in DOMAIN data) <=> (resp.status = HTTP_OK)
                     /\ resp.status = HTTP_OK => ContentFields \subseteq DOMAIN data
                     /\ resp.status # HTTP_OK => ContentFields \cap DOMAIN data = {}

\* C15 witness: query has returned a 200 result with html after an earlier
\* attempt that did not end the loop.
C15_Witness ==
    /\ q_pc = "done"
    /\ Len(q_hist) >= 2
    /\ resp.status = HTTP_OK
    /\ resp.has_html
    /\ "html" \in DOMAIN FullData(SpiderOf(U1, resp, [links |-> LinkList(1), shape |-> "ok"]))

\* Attempt i got an answer whose bytes, with all that the buffer held by
\* then, could not be decoded as UTF-8.
DecodeFailedAt(i) == q_hist[i].kind = "response" /\ ~DecodedAt(i)

\* C16: a decode failure is terminal: the attempt whose bytes cannot be
\* decoded is the last one, whatever the number of attempts made before it,
\* and query returns status 503 without html and without raising.
C16_DecodeFailureTerminal ==
    \A i \in 1..Len(q_hist) :
        DecodeFailedAt(i) =>
            /\ i = Len(q_hist)
            /\ q_pc # "raised"
            /\ try_count >= max_try_count
            /\ resp.status = HTTP_SERVICE_UNAVAILABLE
            /\ ~resp.has_html
            /\ resp.html = <<>>

\* C16 witness: query has returned after a second attempt that failed to
\* decode, the first having ended in a transport error.
C16_Witness ==
    /\ q_pc = "done"
    /\ Len(q_hist) = 2
    /\ q_hist[1].kind = "pycurl.error"
    /\ DecodeFailedAt(2)

(***************************************************************************)
(*                   Properties of Extractor.get_links                     *)
(***************************************************************************)

\* The anchors get_links has appended a record for; record i is for anchor i.
Extracted == 1..Len(e_urls)

\* C17 as claimed: a link is in scope iff its reference has the authority of
\* the base page or no authority of its own.
C17_InScopeIffSameAuthority ==
    \A i \in Extracted :
        LET parsed_href == urlparse(e_anchors[i].href)
        IN e_urls[i].in_scope <=>
              \/ parsed_href.netloc = ""
              \/ parsed_href.netloc = urlparse(e_base_url).netloc

\* C18 as claimed: the url of every link record is absolute: it has a scheme
\* and an authority.
C18_AbsoluteUrl ==
    \A i \in Extracted :
        /\ urlparse(e_urls[i].url).scheme # ""
        /\ urlparse(e_urls[i].url).netloc # ""

\* C19 as claimed: on the page http://example.onion/a/b a fragment-only
\* reference yields a link in scope whose url keeps the path /a/b.
C19_FragmentKeepsBasePath ==
    \A i \in Extracted :
        (e_base_url = OnionPage /\ e_anchors[i].href \in FragmentOnlyHrefs) =>
            /\ e_urls[i].in_scope
            /\ urlparse(e_urls[i].url).path = "/a/b"

\* C20 as claimed: is_onion of a link record is true iff the host of the
\* record's url is an onion host.
C20_IsOnionIffOnionHost ==
    \A i \in Extracted :
        e_urls[i].is_onion <=> is_onion_of(urlparse(e_urls[i].url).netloc)

(***************************************************************************)
(*                Properties of the Extractor accessors                    *)
(***************************************************************************)

\* C21 as claimed: no accessor call raises, whatever the page and whatever
\* calls were made before.
C21_AccessorsNeverRaise ==
    \A i \in 1..Len(e_results) : ~e_results[i].result.raised

\* C22 as claimed: on a page whose body text has no Ethereum address match,
\* the empty body text included, get_eth_addrs returns an empty sequence,
\* never None.
C22_EthAddrsEmptyNotNone ==
    \A i \in 1..Len(e_results) :
        (/\ e_results[i].accessor = "get_eth_addrs"
         /\ e_page.has_body
         /\ findall(EthWords, e_page.text) = <<>>)
        => /\ ~e_results[i].result.raised
           /\ ~e_results[i].result.is_none
           /\ e_results[i].result.val = <<>>

(***************************************************************************)
(*                 Properties of CrawlerService.crawl_url                  *)
(***************************************************************************)

\* C23: crawl_url enqueues a job exactly when it returns one, which it does
\* only for a non-empty string url and 0 <= depth <= MAX_CRAWL_DEPTH; for
\* every other input it raises ValidationError and leaves the queue as it
\* was.
C23_CrawlUrlValidates ==
    s_last.outcome # "none" =>
        LET valid == /\ s_last.url.is_str
                     /\ s_last.url.val # ""
                     /\ 0 <= s_last.depth
                     /\ s_last.depth <= 5
        IN /\ queue # s_last.before => (valid /\ s_last.outcome = "job")
           /\ s_last.outcome = "job" =>
                 /\ Len(queue) = Len(s_last.before) + 1
                 /\ SubSeq(queue, 1, Len(s_last.before)) = s_last.before
                 /\ queue[Len(queue)].url = s_last.url.val
                 /\ queue[Len(queue)].depth = s_last.depth
           /\ ~valid => (s_last.outcome = "ValidationError" /\ queue = s_last.before)

\* C23 witness: a call with depth above MAX_CRAWL_DEPTH has been rejected
\* after an earlier call had put a job on the queue.
C23_Witness ==
    /\ s_last.outcome = "ValidationError"
    /\ s_last.url.is_str
    /\ s_last.url.val # ""
    /\ s_last.depth = 6
    /\ Len(queue) = 1
    /\ queue = s_last.before

(***************************************************************************)
(*                      Properties of ErrorTracker                         *)
(***************************************************************************)

\* C24: capture_exception never raises; called while the tracker is disabled
\* it calls no handler; called while it is enabled it calls every handler
\* registered so far exactly once, in registration order, whether or not an
\* earlier handler raised.
C24_CaptureCallsHandlers ==
    t_last.made =>
        /\ ~t_last.raised
        /\ ~t_last.enabled => t_last.called = <<>>
        /\ t_last.enabled =>
              /\ Len(t_last.called) = Len(t_last.handlers)
              /\ \A k \in 1..Len(t_last.handlers) :
                    /\ t_last.called[k].id = k
                    /\ t_last.called[k] = t_last.handlers[k]

\* C24 witness: an enabled tracker has called its two handlers, the first of
\* which raised.
C24_Witness ==
    /\ t_last.made
    /\ t_last.enabled
    /\ Len(t_last.handlers) = 2
    /\ t_last.handlers[1].raises
    /\ Len(t_last.called) = 2

(***************************************************************************)
(*         Properties of QueueFactory and DatabaseConnection               *)
(***************************************************************************)

\* The cache slot the last call was for.
LastSlot ==
    IF f_last.target = "MONGO" THEN d_client ELSE f_connections[f_last.target]

\* C25 as claimed: a failed connection attempt is not cached: every cached
\* handle is one whose ping succeeded, and a call made while the server is
\* unreachable raises, unless a handle whose ping succeeded is reused.
C25_FailedConnectionNotCached ==
    /\ \A wt \in WorkerTypes : f_connections[wt].cached => f_connections[wt].pinged
    /\ d_client.cached => d_client.pinged
    /\ (f_last.made /\ f_last.outcome = "raised") => ~LastSlot.cached
    /\ (f_last.made /\ ~f_last.up /\ f_last.outcome = "handle") => LastSlot.pinged

(***************************************************************************)
(*          Properties of one crawl invocation: order and payload          *)
(***************************************************************************)

\* The documents of the store whose identity is id.
DocsWithId(id) == {i \in 1..Len(store) : store[i]._id = id}

\* C26: the steps of an invocation happen in the order fetch, extract,
\* persist, fan-out: before the upsert has returned no enqueue call is made,
\* the fan-out starts only with the payload built and the identity the
\* upsert returned, and the parent of every child job is the identity of a
\* stored document whose url is the URL of the invocation.
C26_PersistBeforeFanOut ==
    \A w \in Running :
        /\ wk[w].pc \in {"process", "exists", "create", "update", "lookup", "raised"}
              => (wk[w].calls = <<>> /\ wk[w].enq = <<>>)
        /\ (wk[w].pc = "fanout" \/ wk[w].calls # <<>>) =>
              /\ wk[w].response.status # 0
              /\ "links" \in DOMAIN wk[w].data
              /\ wk[w].ret # 0
              /\ \E i \in DocsWithId(wk[w].ret) : store[i].url = wk[w].job.url
              /\ \A p \in 1..Len(wk[w].calls) :
                    /\ wk[w].calls[p].parent = wk[w].ret
                    /\ \E i \in DocsWithId(wk[w].calls[p].parent) :
                          store[i].url = wk[w].job.url

\* C26 witness: an invocation that created its document has enqueued child
\* jobs, beside a document of another URL.
C26_Witness ==
    \E w \in Workers :
        /\ wk[w].pc = "done"
        /\ wk[w].enq # <<>>
        /\ ~wk[w].seen
        /\ wk[w].writes = 1
        /\ Len(store) = 2
        /\ store[1].url # wk[w].job.url
        /\ store[wk[w].ret].url = wk[w].job.url

\* The documents this invocation has written: seen_time is the time of its
\* own fetch.
WrittenBy(w) ==
    {i \in 1..Len(store) :
        store[i].url = wk[w].job.url /\ store[i].seen_time = wk[w].inv}

\* C27: the is_onion and in_scope of the payload and of the document written
\* are the arguments of the invocation, and the is_onion and in_scope
\* arguments of every child job are those of the link record it was enqueued
\* from.
C27_FlagsAreArguments ==
    \A w \in Running :
        /\ "url" \in DOMAIN wk[w].data =>
              /\ wk[w].data.is_onion = wk[w].job.is_onion
              /\ wk[w].data.in_scope = wk[w].job.in_scope
        /\ \A i \in WrittenBy(w) :
              /\ store[i].is_onion = wk[w].job.is_onion
              /\ store[i].in_scope = wk[w].job.in_scope
        /\ \A p \in 1..Len(wk[w].calls) :
              LET links == wk[w].data.links
                  link  == links[((p - 1) % Len(links)) + 1]
              IN /\ wk[w].calls[p].url = link.url
                 /\ wk[w].calls[p].is_onion = link.is_onion
                 /\ wk[w].calls[p].in_scope = link.in_scope

\* C27 witness: a job that came with is_onion false and in_scope true has
\* written its document and enqueued the children of a page whose two links
\* carry different flags.
C27_Witness ==
    \E w \in Workers :
        /\ wk[w].pc = "done"
        /\ ~wk[w].job.is_onion
        /\ wk[w].job.in_scope
        /\ wk[w].writes = 1
        /\ WrittenBy(w) # {}
        /\ wk[w].enq # <<>>
        /\ Len(wk[w].data.links) = 2
        /\ Len(wk[w].enq) >= 2
        /\ wk[w].enq[1].is_onion # wk[w].enq[2].is_onion

\* The invocations that have built their payload.
Built == {w \in Running : wk[w].pc \notin {"process", "raised"}}

C29_AnswerSingleUse ==
    /\ \A j \in 1..Len(k_hist) :
          (k_hist[j].enabled /\ \E i \in 1..(j - 1) : k_hist[i].enabled)
             => (~k_hist[j].valid /\ k_hist[j].error = "expired")
    /\ Cardinality({j \in 1..Len(k_hist) : k_hist[j].enabled /\ k_hist[j].valid}) <= 1
    /\ (k_hist # <<>> /\ k_hist[Len(k_hist)].enabled) => k_session = <<>>

\* C29 witness: the generated answer passed validate, and the next validate
\* call with the same value was answered (False, expired).
C29_Witness ==
    /\ Len(k_hist) >= 2
    /\ k_hist[1].enabled /\ k_hist[1].valid
    /\ k_hist[1].stored \in Answers
    /\ k_hist[2].enabled
    /\ k_hist[2].value = k_hist[1].value
    /\ ~k_hist[2].valid /\ k_hist[2].error = "expired"

(***************************************************************************)
(*             Properties of the output buffer of query(url)               *)
(***************************************************************************)

\* C30 as claimed: the html of a successful result holds only bytes received
\* during the successful attempt, the last one; no byte that an earlier
\* attempt wrote to the buffer before it ended in an error is part of it.
C30_HtmlOnlyFromSuccessfulAttempt ==
    (q_pc = "done" /\ resp.has_html) =>
        \A i \in 1..Len(resp.html) :
            /\ resp.html[i].att = q_attempts
            /\ q_hist[resp.html[i].att].kind = "response"

(***************************************************************************)
(*               Properties of crawls run one after another                *)
(***************************************************************************)

\* C31 as claimed: with one invocation at a time the store never holds two
\* documents with the same URL, also when store calls fail.
C31_SequentialNoDuplicates ==
    \A i \in 1..Len(store) : \A j \in 1..Len(store) :
        store[i].url = store[j].url => i = j

\* The documents reached from document id by following parent at least once
\* and at most n times; 0 is the null parent.
RECURSIVE AncestorsOf(_, _)
AncestorsOf(id, n) ==
    IF n = 0 \/ DocsWithId(id) = {} THEN {}
    ELSE LET up == {store[i].parent : i \in DocsWithId(id)} \ {0}
         IN up \cup UNION {AncestorsOf(a, n - 1) : a \in up}

\* C32 as claimed: the parent relation over the stored documents is acyclic:
\* no document is its own parent or ancestor.
C32_ParentAcyclic ==
    \A i \in 1..Len(store) :
        store[i]._id \notin AncestorsOf(store[i]._id, Len(store))

\* C33 as claimed: the re_crawl = false of an invocation is handed down to
\* the jobs it enqueues, so that no job spawned by it takes the update
\* branch for a document that exists.
C33_ReCrawlInherited ==
    \A w \in Running :
        ~wk[w].job.re_crawl =>
            \A p \in 1..Len(wk[w].calls) : ~wk[w].calls[p].re_crawl

(***************************************************************************)
(*                 Properties of the crawl of one seed job                 *)
(***************************************************************************)

\* The jobs in the queue and in the hands of the workers.
JobsAround ==
    {queue[p] : p \in 1..Len(queue)}
       \cup {wk[w].job : w \in {v \in Workers : wk[v].pc \notin {"idle", "stopped"}}}

\* The invocations started never exceed (1 + L)^D, D the depth of the seed.
InvocationsBounded == \A j \in JobsAround : started <= TreeJobs(j.root)

\* The queue is empty and no invocation runs.
CrawlOver ==
    /\ queue = <<>>
    /\ \A w \in Workers : wk[w].pc \in {"idle", "stopped"}

\* C34: the crawl one seed job of depth D starts over pages of at most L
\* links makes at most (1 + L)^D invocations and then ends: when every step
\* that can be taken is taken, the queue becomes empty and stays empty.
C34_CrawlTerminates == []InvocationsBounded /\ <>[]CrawlOver

\* C34 witness: the crawl of a seed of depth MaxDepth has made all
\* (1 + MaxLinks)^MaxDepth invocations and is over.
C34_Witness ==
    /\ job_limit = TreeJobs(MaxDepth) + 1
    /\ started = TreeJobs(MaxDepth)
    /\ CrawlOver
    /\ store # <<>>

====
